---- MODULE Spec2Model ----
(***************************************************************************)
(* Model of the research-rag-assistant: Config, DocumentProcessor,         *)
(* VectorStoreManager, RAGQueryEngine and the Streamlit front end.         *)
(*                                                                         *)
(* Strings the code inspects character by character (topic identifiers)    *)
(* are sequences of one-character strings.  Python's None is the empty      *)
(* tuple and a present value v is <<v>>.  The libraries the repository      *)
(* calls (Chroma, the embedding and chat models, PyPDFLoader) are not part  *)
(* of the source: every call to them takes its outcome (success or an       *)
(* exception, the similarity ranking, the generated text) from a record x   *)
(* the action draws with \E.                                                *)
(***************************************************************************)
EXTENDS Integers, Sequences, FiniteSets, TLC

VARIABLES
    apiKey,           \* Config.GOOGLE_API_KEY, read once at import
    vdb,              \* file tree under Config.VECTOR_DB_PATH with the Chroma collections
    disk,             \* file tree under Config.UPLOADS_PATH
    called,           \* history: the topic ids add_documents was ever called with
    last,             \* the last operation: its arguments and what it returned
    pc,               \* position of the front end inside one script run
    topic_id,         \* st.session_state.topic_id
    messages,         \* st.session_state.messages
    papers_uploaded,  \* st.session_state.papers_uploaded
    escaped           \* an exception left main() during the current run

vars == <<apiKey, vdb, disk, called, last,
          pc, topic_id, messages, papers_uploaded, escaped>>

uiVars == <<pc, topic_id, messages, papers_uploaded, escaped>>

-----------------------------------------------------------------------------
(* Bounds of the model *)

MaxChunks == 2        \* chunks all collections hold together at most
MaxK == 2             \* largest k a caller passes to get_relevant_chunks
MaxPaths == 2         \* longest list of paths given to process_pdfs
MaxUploads == 2       \* most files in one upload
MaxMessages == 2      \* longest chat history

(* Program constants *)

TOP_K_RESULTS == 5
ExcerptLen == 300

None == <<>>
Some(v) == <<v>>

Min(a, b) == IF a <= b THEN a ELSE b
Range(s) == {s[i] : i \in 1..Len(s)}

-----------------------------------------------------------------------------
(* Topic identifiers and their normalisation *)

TopicIds == { <<>>, <<"a", " ", "b">>, <<"A", "-", "B">> }

Replace(ch, old, new) == IF ch = old THEN new ELSE ch

Lower(ch) ==
    CASE ch = "A" -> "a"
      [] ch = "B" -> "b"
      [] ch = "C" -> "c"
      [] OTHER -> ch

_get_collection_name(t) ==
    [i \in 1..Len(t) |-> Lower(Replace(Replace(t[i], " ", "_"), "-", "_"))]

\* the directory is named by its last path component; <<>> is VECTOR_DB_PATH itself
_get_persist_directory(t) == _get_collection_name(t)

CollNames == {_get_collection_name(t) : t \in TopicIds}

-----------------------------------------------------------------------------
(* Chunks *)

Doc(text, source, page, cid) ==
    [page_content |-> text,
     metadata |-> [source |-> source, page |-> page, chunk_id |-> cid]]

Sky == Doc(<<"s", "k", "y">>, "p.pdf", 0, 0)
Sea == Doc(<<"s", "e", "a">>, "p.pdf", 1, 1)

Batches == { <<>>, <<Sky>>, <<Sea>>, <<Sky, Sea>> }

\* what a collection holds: the chunk and, as history, the topic id it was
\* written under
Entry(doc, t) == [doc |-> doc, by |-> t]
Entries(documents, t) == [i \in 1..Len(documents) |-> Entry(documents[i], t)]
DocsOf(entries) == [i \in 1..Len(entries) |-> entries[i].doc]

-----------------------------------------------------------------------------
(* Config *)

ApiKeys == {None, Some(""), Some("key")}

\* bool(GOOGLE_API_KEY): None and "" are falsy
Truthy(key) == key # None /\ key # Some("")

validate_skips_uploads(key, v, d) ==
    IF ~Truthy(key)
    THEN [raised |-> TRUE, vdb |-> v, disk |-> d]
    ELSE [raised |-> FALSE, vdb |-> [v EXCEPT !.root = TRUE], disk |-> d]

validate(key, v, d) ==
    IF ~Truthy(key)
    THEN [raised |-> TRUE, vdb |-> v, disk |-> d]
    ELSE [raised |-> FALSE,
          vdb |-> [v EXCEPT !.root = TRUE],
          disk |-> [d EXCEPT !.root = TRUE]]

-----------------------------------------------------------------------------
(* DocumentProcessor *)

\* An uploaded file: its name and what PyPDFLoader makes of its bytes, either
\* an exception or the pages, each being the paragraphs the text splitter cuts
\* it into.
Page(n, paragraphs) == [page |-> n, paragraphs |-> paragraphs]
Pdf(pages) == [kind |-> "pdf", pages |-> pages]
Corrupt == [kind |-> "corrupt", pages |-> <<>>]
Absent == [kind |-> "absent", pages |-> <<>>]

PaperP == [name |-> "p.pdf",
           content |-> Pdf(<<Page(0, <<Sky.page_content>>),
                             Page(1, <<Sea.page_content>>)>>)]
PaperQ == [name |-> "q.pdf", content |-> Corrupt]

UploadedFiles == {PaperP, PaperQ}
FileNames == {f.name : f \in UploadedFiles}

\* the topics that have an upload folder in the model
UploadTopics == TopicIds \ {<<>>}

\* os.path.join(Config.UPLOADS_PATH, topic_id, name)
Path(t, name) == [folder |-> t, name |-> name]
Paths == {Path(t, name) : t \in UploadTopics, name \in FileNames}

FolderExists(d, t) == IF t = <<>> THEN d.root ELSE t \in d.folders

\* x.save: open() and write() succeed; the folder is made before the file is
\* opened
save_uploaded_file(d, uploaded_file, t, x) ==
    LET file_path == Path(t, uploaded_file.name)
        made == [d EXCEPT !.root = TRUE, !.folders = @ \cup {t}]
    IN  IF x.save
        THEN [raised |-> FALSE, ret |-> <<file_path>>,
              disk |-> [made EXCEPT !.files[file_path] = uploaded_file.content]]
        ELSE [raised |-> TRUE, ret |-> <<>>, disk |-> made]

load_pdf(d, file_path) ==
    LET content == d.files[file_path]
    IN  IF content.kind = "pdf"
        THEN [raised |-> FALSE,
              docs |-> [i \in 1..Len(content.pages) |->
                           [page_content |-> content.pages[i].paragraphs,
                            metadata |-> [source |-> file_path.name,
                                          page |-> content.pages[i].page]]]]
        ELSE [raised |-> TRUE, docs |-> <<>>]

RECURSIVE load_multiple_pdfs_stops_at_failure(_, _)
RECURSIVE load_multiple_pdfs(_, _)
load_multiple_pdfs_stops_at_failure(d, file_paths) ==
    IF file_paths = <<>> THEN <<>>
    ELSE LET r == load_pdf(d, Head(file_paths))
         IN  IF r.raised THEN <<>>
             ELSE r.docs \o load_multiple_pdfs_stops_at_failure(d, Tail(file_paths))

load_multiple_pdfs(d, file_paths) ==
    IF file_paths = <<>> THEN <<>>
    ELSE LET r == load_pdf(d, Head(file_paths))
         IN  (IF r.raised THEN <<>> ELSE r.docs)
                 \o load_multiple_pdfs(d, Tail(file_paths))

\* text_splitter.split_documents: the paragraphs of every page in order, each
\* with the metadata of its page
RECURSIVE SplitText(_)
SplitText(documents) ==
    IF documents = <<>> THEN <<>>
    ELSE LET doc == Head(documents)
         IN  [i \in 1..Len(doc.page_content) |->
                 [page_content |-> doc.page_content[i], metadata |-> doc.metadata]]
             \o SplitText(Tail(documents))

split_documents_counts_from_one(documents) ==
    LET chunks == SplitText(documents)
    IN  [i \in 1..Len(chunks) |->
            Doc(chunks[i].page_content, chunks[i].metadata.source,
                chunks[i].metadata.page, i)]

split_documents(documents) ==
    LET chunks == SplitText(documents)
    IN  [i \in 1..Len(chunks) |->
            Doc(chunks[i].page_content, chunks[i].metadata.source,
                chunks[i].metadata.page, i - 1)]

process_pdfs(d, file_paths) == split_documents(load_multiple_pdfs(d, file_paths))

delete_topic_files(d, t) ==
    IF ~FolderExists(d, t) THEN d
    ELSE IF t = <<>>
    THEN [root |-> FALSE, folders |-> {}, files |-> [q \in Paths |-> Absent]]
    ELSE [d EXCEPT !.folders = @ \ {t},
                   !.files = [q \in Paths |-> IF q.folder = t THEN Absent ELSE @[q]]]

-----------------------------------------------------------------------------
(* VectorStoreManager *)

\* os.path.exists(persist_directory)
PathExists(v, dir) == IF dir = <<>> THEN v.root ELSE dir \in v.dirs

\* the tree after the persist directory dir has been created, parents included
MakeDir(v, dir) ==
    [v EXCEPT !.root = TRUE,
              !.dirs = IF dir = <<>> THEN @ ELSE @ \cup {dir}]

\* shutil.rmtree(dir): removing VECTOR_DB_PATH removes every directory below it
RemoveTree(v, dir) ==
    IF dir = <<>>
    THEN [root |-> FALSE, dirs |-> {}, coll |-> [n \in CollNames |-> <<>>]]
    ELSE [v EXCEPT !.dirs = @ \ {dir}, !.coll[dir] = <<>>]

load_vector_store(v, t, x) ==
    IF ~PathExists(v, _get_persist_directory(t)) THEN None
    ELSE IF x.load THEN Some(_get_collection_name(t))
    ELSE None

\* Chroma.from_documents opens (or creates) the collection in the directory and
\* adds the documents; a call that raises has written nothing
create_vector_store(v, documents, t, x) ==
    LET name == _get_collection_name(t)
        dir == _get_persist_directory(t)
    IN  IF x.embed
        THEN [raised |-> FALSE,
              vdb |-> [MakeDir(v, dir) EXCEPT !.coll[name] = @ \o Entries(documents, t)]]
        ELSE [raised |-> TRUE, vdb |-> v]

add_documents_overwrites(v, documents, t, x) ==
    LET vectorstore == load_vector_store(v, t, x)
    IN  IF vectorstore = None THEN create_vector_store(v, documents, t, x)
        ELSE IF x.embed
        THEN [raised |-> FALSE,
              vdb |-> [v EXCEPT !.coll[vectorstore[1]] = Entries(documents, t)]]
        ELSE [raised |-> TRUE, vdb |-> v]

add_documents(v, documents, t, x) ==
    LET vectorstore == load_vector_store(v, t, x)
    IN  IF vectorstore = None THEN create_vector_store(v, documents, t, x)
        ELSE IF x.embed
        THEN [raised |-> FALSE,
              vdb |-> [v EXCEPT !.coll[vectorstore[1]] = @ \o Entries(documents, t)]]
        ELSE [raised |-> TRUE, vdb |-> v]

delete_vector_store_keeps_directory(v, t) ==
    LET dir == _get_persist_directory(t)
    IN  IF PathExists(v, dir) THEN [v EXCEPT !.coll[dir] = <<>>] ELSE v

delete_vector_store(v, t) ==
    LET dir == _get_persist_directory(t)
    IN  IF PathExists(v, dir) THEN RemoveTree(v, dir) ELSE v

topic_exists(v, t) == PathExists(v, _get_persist_directory(t))

\* Python's `k or default`: None and 0 are falsy
PyOr(k, default) ==
    IF k = None THEN default
    ELSE IF k[1] = 0 THEN default
    ELSE k[1]

get_retriever(v, t, k, x) ==
    LET vectorstore == load_vector_store(v, t, x)
    IN  IF vectorstore = None THEN None
        ELSE Some([store |-> vectorstore[1], k |-> PyOr(k, TOP_K_RESULTS)])

\* x.rank is the similarity order the index computes for the question, a
\* permutation of the positions of the collection: here the order of insertion
\* or its reverse
Ranks == { [i \in 1..MaxChunks |-> i], [i \in 1..MaxChunks |-> MaxChunks + 1 - i] }

\* the k nearest entries of the collection
get_relevant_documents(v, retriever, x) ==
    LET c == v.coll[retriever.store]
        order == SelectSeq(x.rank, LAMBDA p : p <= Len(c))
        m == Min(retriever.k, Len(c))
    IN  [i \in 1..m |-> c[order[i]]]

-----------------------------------------------------------------------------
(* RAGQueryEngine *)

Questions == {"What color is the sky?"}
Answers == {"The sky is blue."}

Take(s, n) == SubSeq(s, 1, Min(n, Len(s)))

_format_sources(source_documents) ==
    [i \in 1..Len(source_documents) |->
        [number |-> i,
         filename |-> source_documents[i].metadata.source,
         page |-> source_documents[i].metadata.page,
         content |-> Take(source_documents[i].page_content, ExcerptLen)
                        \o <<".", ".", ".">>]]

\* the messages of the result dictionary: the fixed text of the f-string and
\* the value formatted into it (the topic id, or str(e) of the exception)
NoPapersError(t) ==
    [text |-> "No papers found for topic. Please upload papers first.", arg |-> t]
QueryError(e) == [text |-> "Error processing query", arg |-> <<e>>]

\* no retriever: the directory is missing, or opening the collection raised
LoadFault(v, t) == IF topic_exists(v, t) THEN "load" ELSE "none"

\* Of the records the two methods give back, ret is the value the method
\* returns; hits (the entries retrieved), llm (the chat model was invoked),
\* fault (the external call that raised) and raised (an exception left the
\* method) describe the call.
get_relevant_chunks(v, question, t, k, x) ==
    LET retriever == get_retriever(v, t, k, x)
    IN  IF retriever = None
        THEN [ret |-> <<>>, hits |-> <<>>, llm |-> FALSE, fault |-> LoadFault(v, t),
              raised |-> FALSE]
        ELSE IF ~x.search
        THEN [ret |-> <<>>, hits |-> <<>>, llm |-> FALSE, fault |-> "search",
              raised |-> FALSE]
        ELSE LET hits == get_relevant_documents(v, retriever[1], x)
             IN  [ret |-> _format_sources(DocsOf(hits)), hits |-> hits,
                  llm |-> FALSE, fault |-> "none", raised |-> FALSE]

query_keeps_sources_on_failure(v, question, t, x) ==
    LET retriever == get_retriever(v, t, None, x)
    IN  IF retriever = None
        THEN [ret |-> [answer |-> None, sources |-> <<>>,
                       error |-> Some(NoPapersError(t))],
              hits |-> <<>>, llm |-> FALSE, fault |-> LoadFault(v, t), raised |-> FALSE]
        ELSE IF ~x.search
        THEN [ret |-> [answer |-> None, sources |-> <<>>,
                       error |-> Some(QueryError("embedding request failed"))],
              hits |-> <<>>, llm |-> FALSE, fault |-> "search", raised |-> FALSE]
        ELSE LET hits == get_relevant_documents(v, retriever[1], x)
             IN  IF ~x.llm
                 THEN [ret |-> [answer |-> Some(x.text),
                                sources |-> _format_sources(DocsOf(hits)),
                                error |-> Some(QueryError("generation request failed"))],
                       hits |-> hits, llm |-> TRUE, fault |-> "llm", raised |-> FALSE]
                 ELSE [ret |-> [answer |-> Some(x.text),
                                sources |-> _format_sources(DocsOf(hits)),
                                error |-> None],
                       hits |-> hits, llm |-> TRUE, fault |-> "none", raised |-> FALSE]

query(v, question, t, x) ==
    LET retriever == get_retriever(v, t, None, x)
    IN  IF retriever = None
        THEN [ret |-> [answer |-> None, sources |-> <<>>,
                       error |-> Some(NoPapersError(t))],
              hits |-> <<>>, llm |-> FALSE, fault |-> LoadFault(v, t), raised |-> FALSE]
        ELSE IF ~x.search
        THEN [ret |-> [answer |-> None, sources |-> <<>>,
                       error |-> Some(QueryError("embedding request failed"))],
              hits |-> <<>>, llm |-> FALSE, fault |-> "search", raised |-> FALSE]
        ELSE LET hits == get_relevant_documents(v, retriever[1], x)
             IN  IF ~x.llm
                 THEN [ret |-> [answer |-> None, sources |-> <<>>,
                                error |-> Some(QueryError("generation request failed"))],
                       hits |-> hits, llm |-> TRUE, fault |-> "llm", raised |-> FALSE]
                 ELSE [ret |-> [answer |-> Some(x.text),
                                sources |-> _format_sources(DocsOf(hits)),
                                error |-> None],
                       hits |-> hits, llm |-> TRUE, fault |-> "none", raised |-> FALSE]

-----------------------------------------------------------------------------
(* The record of the last operation *)

\* op and its arguments topic, k, docs (the chunks given or returned) and paths;
\* what it returned: exists (topic_exists, and the test delete_vector_store
\* made of the directory), ret (get_relevant_chunks), result
\* (query) or pages (load_multiple_pdfs); and about the call: hits, llm, fault
\* as above and raised
NoResult == [answer |-> None, sources |-> <<>>, error |-> None]

NoOp == [op |-> "none", topic |-> <<>>, k |-> None, docs |-> <<>>,
         paths |-> <<>>, pages |-> <<>>, exists |-> FALSE, ret |-> <<>>, result |-> NoResult, hits |-> <<>>,
         raised |-> FALSE, llm |-> FALSE, fault |-> "none"]

\* outcomes of the external calls of one operation
\* (a call that is not reached has no outcome: it is listed as succeeding)
XStore == [load : BOOLEAN, embed : BOOLEAN]
XRetrieve == {x \in [load : BOOLEAN, search : BOOLEAN, rank : Ranks] :
                 /\ ~x.load => x.search /\ x.rank = [i \in 1..MaxChunks |-> i]
                 /\ ~x.search => x.rank = [i \in 1..MaxChunks |-> i]}
XQuery == {x \in [load : BOOLEAN, search : BOOLEAN, llm : BOOLEAN,
                  rank : Ranks, text : Answers] :
              /\ ~x.load => x.search /\ x.llm /\ x.rank = [i \in 1..MaxChunks |-> i]
              /\ ~x.search => x.llm /\ x.rank = [i \in 1..MaxChunks |-> i]}

KArgs == {None} \cup {Some(k) : k \in 0..MaxK}

EmptyVdb == [root |-> FALSE, dirs |-> {}, coll |-> [n \in CollNames |-> <<>>]]
EmptyDisk == [root |-> FALSE, folders |-> {}, files |-> [q \in Paths |-> Absent]]

RECURSIVE SumLen(_, _)
SumLen(f, S) ==
    IF S = {} THEN 0
    ELSE LET n == CHOOSE n \in S : TRUE IN Len(f[n]) + SumLen(f, S \ {n})

Stored(v) == SumLen(v.coll, CollNames)

\* Chroma is opened (and can fail to open) only when the directory exists
Reached(t, x) == ~topic_exists(vdb, t) => x.load

-----------------------------------------------------------------------------
(* Operations called by a client of the library *)

Validate ==
    LET r == validate(apiKey, vdb, disk)
    IN  /\ vdb' = r.vdb
        /\ disk' = r.disk
        /\ last' = [NoOp EXCEPT !.op = "validate", !.raised = r.raised]
        /\ UNCHANGED <<apiKey, called, uiVars>>

Store(op, r, documents, t) ==
    /\ Stored(vdb) + Len(documents) <= MaxChunks
    /\ vdb' = r.vdb
    /\ called' = called \cup {t}
    /\ last' = [NoOp EXCEPT !.op = op, !.topic = t, !.docs = documents,
                            !.raised = r.raised]
    /\ UNCHANGED <<apiKey, disk, uiVars>>

AddDocuments ==
    \E documents \in Batches, t \in TopicIds, x \in XStore :
        /\ Reached(t, x)
        /\ Store("add_documents", add_documents(vdb, documents, t, x), documents, t)

DeleteVectorStore ==
    \E t \in TopicIds :
        /\ vdb' = delete_vector_store(vdb, t)
        /\ last' = [NoOp EXCEPT !.op = "delete_vector_store", !.topic = t,
                                !.exists = topic_exists(vdb, t)]
        /\ UNCHANGED <<apiKey, disk, called, uiVars>>

TopicExists ==
    \E t \in TopicIds :
        /\ last' = [NoOp EXCEPT !.op = "topic_exists", !.topic = t,
                                !.exists = topic_exists(vdb, t)]
        /\ UNCHANGED <<apiKey, vdb, disk, called, uiVars>>

GetRelevantChunks ==
    \E question \in Questions, t \in TopicIds, k \in KArgs, x \in XRetrieve :
        LET r == get_relevant_chunks(vdb, question, t, k, x)
        IN  /\ Reached(t, x)
            /\ last' = [NoOp EXCEPT !.op = "get_relevant_chunks", !.topic = t,
                                    !.k = k, !.hits = r.hits, !.ret = r.ret,
                                    !.raised = r.raised, !.llm = r.llm,
                                    !.fault = r.fault]
            /\ UNCHANGED <<apiKey, vdb, disk, called, uiVars>>

Query ==
    \E question \in Questions, t \in TopicIds, x \in XQuery :
        LET r == query(vdb, question, t, x)
        IN  /\ Reached(t, x)
            /\ last' = [NoOp EXCEPT !.op = "query", !.topic = t,
                                    !.hits = r.hits, !.result = r.ret,
                                    !.raised = r.raised, !.llm = r.llm,
                                    !.fault = r.fault]
            /\ UNCHANGED <<apiKey, vdb, disk, called, uiVars>>

\* nothing on disk, nothing done, no session
Fresh ==
    /\ vdb = EmptyVdb
    /\ disk = EmptyDisk
    /\ called = {}
    /\ last = NoOp
    /\ pc = "idle"
    /\ topic_id = None
    /\ messages = <<>>
    /\ papers_uploaded = FALSE
    /\ escaped = FALSE

\* a process whose credential is configured
Init == apiKey = Some("key") /\ Fresh

Next ==
    \/ Validate
    \/ AddDocuments
    \/ DeleteVectorStore
    \/ TopicExists
    \/ GetRelevantChunks
    \/ Query

Spec == Init /\ [][Next]_vars

\* a client that only writes to the store and asks what exists
NextStore ==
    \/ Validate
    \/ AddDocuments
    \/ DeleteVectorStore
    \/ TopicExists

SpecStore == Init /\ [][NextStore]_vars

\* a client that writes to the store and asks questions
NextQuery ==
    \/ Validate
    \/ AddDocuments
    \/ DeleteVectorStore
    \/ Query

SpecQuery == Init /\ [][NextQuery]_vars

-----------------------------------------------------------------------------
(* Configuration and ingestion: Config and DocumentProcessor, which need no
   credential, under every value of GOOGLE_API_KEY *)

PathLists == UNION {[1..n -> Paths] : n \in 0..MaxPaths}

SaveUploadedFile ==
    \E uploaded_file \in UploadedFiles, t \in UploadTopics, x \in [save : BOOLEAN] :
        LET r == save_uploaded_file(disk, uploaded_file, t, x)
        IN  /\ disk' = r.disk
            /\ last' = [NoOp EXCEPT !.op = "save_uploaded_file", !.topic = t,
                                    !.paths = r.ret, !.raised = r.raised]
            /\ UNCHANGED <<apiKey, vdb, called, uiVars>>

ProcessPdfs ==
    \E file_paths \in PathLists :
        /\ last' = [NoOp EXCEPT !.op = "process_pdfs", !.paths = file_paths,
                                !.pages = load_multiple_pdfs(disk, file_paths),
                                !.docs = process_pdfs(disk, file_paths)]
        /\ UNCHANGED <<apiKey, vdb, disk, called, uiVars>>

DeleteTopicFiles ==
    \E t \in TopicIds :
        /\ disk' = delete_topic_files(disk, t)
        /\ last' = [NoOp EXCEPT !.op = "delete_topic_files", !.topic = t]
        /\ UNCHANGED <<apiKey, vdb, called, uiVars>>

InitIngest == apiKey \in ApiKeys /\ Fresh

NextIngest ==
    \/ Validate
    \/ SaveUploadedFile
    \/ ProcessPdfs
    \/ DeleteTopicFiles

SpecIngest == InitIngest /\ [][NextIngest]_vars

-----------------------------------------------------------------------------
(* The Streamlit front end: every interaction reruns main() *)

\* the content of a chat message: a text, or an f-string message
Plain(text) == [text |-> text, arg |-> <<>>]

\* a message of the history (the user's messages carry no sources); under is
\* the topic_id of the session when the message was appended
Message(role, content, sources, t) ==
    [role |-> role, content |-> content, sources |-> sources, under |-> t]

UploadLists == UNION {[1..n -> UploadedFiles] : n \in 1..MaxUploads}

\* the loop of process_papers over the uploaded files; failAt is the position
\* of the file whose save raises, 0 when none does
RECURSIVE SaveAll(_, _, _, _)
SaveAll(d, uploaded_files, t, failAt) ==
    IF uploaded_files = <<>> THEN [raised |-> FALSE, paths |-> <<>>, disk |-> d]
    ELSE LET r == save_uploaded_file(d, Head(uploaded_files), t,
                                     [save |-> failAt # 1])
         IN  IF r.raised THEN [raised |-> TRUE, paths |-> <<>>, disk |-> r.disk]
             ELSE LET rest == SaveAll(r.disk, Tail(uploaded_files), t, failAt - 1)
                  IN  [raised |-> rest.raised,
                       paths |-> IF rest.raised THEN <<>> ELSE r.ret \o rest.paths,
                       disk |-> rest.disk]

\* process_papers: everything runs inside one try; caught tells that the
\* except branch showed the error in the sidebar
process_papers(v, d, uploaded_files, t, x) ==
    IF ~x.ctor
    THEN [vdb |-> v, disk |-> d, done |-> FALSE, fault |-> "constructor",
          chunks |-> <<>>]
    ELSE LET saved == SaveAll(d, uploaded_files, t, x.failAt)
         IN  IF saved.raised
             THEN [vdb |-> v, disk |-> saved.disk, done |-> FALSE,
                   fault |-> "save", chunks |-> <<>>]
             ELSE LET chunks == process_pdfs(saved.disk, saved.paths)
                      r == add_documents(v, chunks, t, x)
                  IN  [vdb |-> r.vdb, disk |-> saved.disk, done |-> ~r.raised,
                       fault |-> IF r.raised THEN "embed" ELSE "none",
                       chunks |-> chunks]

XUpload == {x \in [ctor : BOOLEAN, failAt : 0..MaxUploads,
                   load : BOOLEAN, embed : BOOLEAN] :
               (~x.ctor \/ x.failAt # 0) => (x.load /\ x.embed)}
XChat == {x \in [manager : BOOLEAN, engine : BOOLEAN, load : BOOLEAN,
                 search : BOOLEAN, llm : BOOLEAN, rank : Ranks, text : Answers] :
             /\ ~x.manager => x.engine
             /\ ~x.engine => x.load
             /\ ~x.load => x.search /\ x.llm /\ x.rank = [i \in 1..MaxChunks |-> i]
             /\ ~x.search => x.llm /\ x.rank = [i \in 1..MaxChunks |-> i]}

validate_config_continues(key, v, d) ==
    LET r == validate(key, v, d)
    IN  [stopped |-> FALSE, vdb |-> r.vdb, disk |-> r.disk]

\* validate_config(): True, or st.stop() when Config.validate() raises
validate_config(key, v, d) ==
    LET r == validate(key, v, d)
    IN  [stopped |-> r.raised, vdb |-> r.vdb, disk |-> r.disk]

\* main() up to validate_config(): st.stop() ends the run when it fails
MainValidate ==
    /\ pc = "idle"
    /\ LET r == validate_config(apiKey, vdb, disk)
       IN  /\ vdb' = r.vdb
           /\ disk' = r.disk
           /\ pc' = IF r.stopped THEN "stopped" ELSE "sidebar"
           /\ last' = [NoOp EXCEPT !.op = "validate", !.raised = r.stopped]
    /\ escaped' = FALSE
    /\ UNCHANGED <<apiKey, called, topic_id, messages, papers_uploaded>>

Stopped ==
    /\ pc = "stopped"
    /\ pc' = "idle"
    /\ last' = [NoOp EXCEPT !.op = "stop"]
    /\ UNCHANGED <<apiKey, vdb, disk, called, topic_id, messages,
                   papers_uploaded, escaped>>

\* sidebar() with no button pressed
SidebarIdle ==
    /\ pc = "sidebar"
    /\ pc' = "chat"
    /\ last' = [NoOp EXCEPT !.op = "sidebar"]
    /\ UNCHANGED <<apiKey, vdb, disk, called, topic_id, messages,
                   papers_uploaded, escaped>>

CreateLoadTopicKeepsMessages ==
    \E topic_input \in TopicIds :
        /\ pc = "sidebar"
        /\ IF topic_input # <<>>
           THEN topic_id' = Some(topic_input) /\ messages' = messages
           ELSE UNCHANGED <<topic_id, messages>>
        /\ pc' = "chat_idle"
        /\ last' = [NoOp EXCEPT !.op = "create_load_topic", !.topic = topic_input]
        /\ UNCHANGED <<apiKey, vdb, disk, called, papers_uploaded, escaped>>

\* sidebar() with "Create/Load Topic" pressed
CreateLoadTopic ==
    \E topic_input \in TopicIds :
        /\ pc = "sidebar"
        /\ IF topic_input # <<>>
           THEN topic_id' = Some(topic_input) /\ messages' = <<>>
           ELSE UNCHANGED <<topic_id, messages>>
        /\ pc' = "chat_idle"
        /\ last' = [NoOp EXCEPT !.op = "create_load_topic", !.topic = topic_input]
        /\ UNCHANGED <<apiKey, vdb, disk, called, papers_uploaded, escaped>>

\* sidebar() with files in the uploader and "Process Papers" pressed
ProcessPapers ==
    \E uploaded_files \in UploadLists, x \in XUpload :
        /\ pc = "sidebar"
        /\ topic_id # None
        /\ x.failAt <= Len(uploaded_files)
        /\ Reached(topic_id[1], x)
        /\ LET r == process_papers(vdb, disk, uploaded_files, topic_id[1], x)
           IN  /\ Stored(vdb) + Len(r.chunks) <= MaxChunks
               /\ vdb' = r.vdb
               /\ disk' = r.disk
               /\ called' = IF r.fault \in {"none", "embed"}
                            THEN called \cup {topic_id[1]} ELSE called
               /\ papers_uploaded' = (papers_uploaded \/ r.done)
               /\ last' = [NoOp EXCEPT !.op = "process_papers",
                                       !.topic = topic_id[1], !.docs = r.chunks,
                                       !.fault = r.fault]
        /\ pc' = "chat_idle"
        /\ UNCHANGED <<apiKey, topic_id, messages, escaped>>

\* chat_interface() with no question: it still builds a VectorStoreManager
\* when a topic is set
ChatRender ==
    \E manager \in BOOLEAN :
        /\ pc \in {"chat", "chat_idle"}
        /\ topic_id = None => manager
        /\ escaped' = ~manager
        /\ pc' = "idle"
        /\ last' = [NoOp EXCEPT !.op = "chat_interface",
                                !.fault = IF manager THEN "none" ELSE "constructor",
                                !.raised = ~manager]
        /\ UNCHANGED <<apiKey, vdb, disk, called, topic_id, messages,
                       papers_uploaded>>

\* chat_interface() with a question typed into the chat input
Ask ==
    \E prompt \in Questions, x \in XChat :
        /\ pc = "chat"
        /\ topic_id # None
        /\ Len(messages) + 2 <= MaxMessages
        /\ Reached(topic_id[1], x)
        /\ ~x.manager \/ topic_exists(vdb, topic_id[1])
        /\ LET user == Message("user", Plain(prompt), <<>>, topic_id[1])
               r == query(vdb, prompt, topic_id[1], x)
               response == IF r.ret.error # None THEN r.ret.error[1]
                           ELSE Plain(r.ret.answer[1])
               sources == IF r.ret.error # None THEN <<>> ELSE r.ret.sources
           IN  IF ~x.manager
               THEN /\ escaped' = TRUE
                    /\ messages' = messages
                    /\ last' = [NoOp EXCEPT !.op = "ask", !.topic = topic_id[1],
                                            !.fault = "constructor", !.raised = TRUE]
               ELSE IF ~x.engine
               THEN /\ escaped' = TRUE
                    /\ messages' = Append(messages, user)
                    /\ last' = [NoOp EXCEPT !.op = "ask", !.topic = topic_id[1],
                                            !.fault = "constructor", !.raised = TRUE]
               ELSE /\ escaped' = FALSE
                    /\ messages' = messages \o
                           <<user, Message("assistant", response, sources, topic_id[1])>>
                    /\ last' = [NoOp EXCEPT !.op = "ask", !.topic = topic_id[1],
                                            !.hits = r.hits, !.result = r.ret,
                                            !.llm = r.llm, !.fault = r.fault]
        /\ pc' = "idle"
        /\ UNCHANGED <<apiKey, vdb, disk, called, topic_id, papers_uploaded>>

InitUI == apiKey \in ApiKeys /\ Fresh

NextUI ==
    \/ MainValidate
    \/ Stopped
    \/ SidebarIdle
    \/ CreateLoadTopic
    \/ ProcessPapers
    \/ ChatRender
    \/ Ask

SpecUI == InitUI /\ [][NextUI]_vars

-----------------------------------------------------------------------------
(* Properties of the vector store and the query engine *)

NoPapersResult(t) ==
    [answer |-> None, sources |-> <<>>, error |-> Some(NoPapersError(t))]

\* C1: a retrieval on a topic id (get_relevant_chunks or query) returns only
\* chunks that were written under that same topic id.
C1_TopicsIsolated ==
    last.op \in {"get_relevant_chunks", "query"} =>
        \A i \in 1..Len(last.hits) : last.hits[i].by = last.topic

\* C2: on a topic id that add_documents was never called with, query returns
\* the "No papers found" result and get_relevant_chunks the empty list, without
\* an exception and without invoking the chat model.  (Stated for the
\* non-empty topic ids.)
C2_NoUpsertNoPapers ==
    /\ (last.op = "query" /\ last.topic # <<>> /\ last.topic \notin called) =>
           /\ last.result = NoPapersResult(last.topic)
           /\ ~last.llm /\ ~last.raised
    /\ (last.op = "get_relevant_chunks" /\ last.topic # <<>>
            /\ last.topic \notin called) =>
           /\ last.ret = <<>>
           /\ ~last.llm /\ ~last.raised

\* C3: right after delete_vector_store(topic) the topic does not exist and
\* topic_exists(topic) returns false; delete_vector_store on a topic that does
\* not exist raises nothing and changes nothing on disk.
C3_DeleteThenAbsent ==
    /\ [](last.op = "delete_vector_store" =>
            ~topic_exists(vdb, last.topic) /\ ~last.raised)
    /\ [][(last.op = "delete_vector_store" /\ last'.op = "topic_exists"
              /\ last'.topic = last.topic) => ~last'.exists]_vars
    /\ [][(last'.op = "delete_vector_store" /\ ~topic_exists(vdb, last'.topic)) =>
              (vdb' = vdb /\ disk' = disk /\ ~last'.raised)]_vars

C3_Witness ==
    /\ last.op = "delete_vector_store" /\ last.exists
    /\ last.topic # <<>> /\ last.topic \in called
    /\ ~topic_exists(vdb, last.topic) /\ vdb.root

\* C4: a successful add_documents(chunks, topic) leaves the topic's collection
\* existing and equal to what it held before (nothing, on the first write)
\* followed by the chunks of the call, and changes no other collection.
C4_AddAppends ==
    [][(last'.op = "add_documents" /\ ~last'.raised) =>
          LET name == _get_collection_name(last'.topic)
          IN  /\ topic_exists(vdb', last'.topic)
              /\ vdb'.coll[name] = vdb.coll[name] \o Entries(last'.docs, last'.topic)
              /\ \A other \in CollNames \ {name} :
                     vdb'.coll[other] = vdb.coll[other]]_vars

C4_Witness ==
    /\ last.op = "add_documents" /\ ~last.raised
    /\ Len(last.docs) >= 1
    /\ Len(vdb.coll[_get_collection_name(last.topic)]) > Len(last.docs)

\* C5: a topic id exists only if its collection was created by an
\* add_documents call with that topic id.
C5_ExistsOnlyIfCreated ==
    \A t \in TopicIds : topic_exists(vdb, t) => t \in called

\* C6: a retrieval with a given k of at most the number of stored chunks, right
\* after a successful add_documents on the same topic id and with no external
\* call failing, returns exactly k results, each a chunk added to that topic id.
\* (Stated for the non-empty topic ids.)
C6_ExactlyKOfTopic ==
    [][(/\ last.op = "add_documents" /\ ~last.raised
        /\ last'.op = "get_relevant_chunks" /\ last'.topic = last.topic
        /\ last'.topic # <<>>
        /\ last'.fault = "none"
        /\ last'.k # None
        /\ last'.k[1] <= Len(vdb.coll[_get_collection_name(last.topic)])) =>
           /\ Len(last'.ret) = last'.k[1]
           /\ \A i \in 1..Len(last'.hits) : last'.hits[i].by = last'.topic]_vars

\* C8: query() never raises; when an external call of the retrieval or the
\* generation fails the result has a non-empty error, answer None and no
\* sources; when none fails and the topic has an index, error is None and the
\* answer is the generated text; exactly one of answer and error is not None.
C8_StructuredResult ==
    last.op = "query" =>
        /\ ~last.raised
        /\ (last.result.answer = None) # (last.result.error = None)
        /\ last.fault # "none" =>
               /\ last.result.error # None
               /\ last.result.error[1].text # ""
               /\ last.result.answer = None
               /\ last.result.sources = <<>>
        /\ (last.fault = "none" /\ topic_exists(vdb, last.topic)) =>
               /\ last.result.error = None
               /\ last.result.answer \in {Some(a) : a \in Answers}
               /\ last.result.sources = _format_sources(DocsOf(last.hits))

C8_Witness ==
    /\ last.op = "query" /\ last.fault = "llm"
    /\ last.llm
    /\ last.result.error # None

-----------------------------------------------------------------------------
(* Properties of the configuration and the ingestion *)

RECURSIVE Concat(_)
Concat(seqs) == IF seqs = <<>> THEN <<>> ELSE Head(seqs) \o Concat(Tail(seqs))

Parsable(d, file_path) == d.files[file_path].kind = "pdf"

\* C7: process_pdfs / load_multiple_pdfs does not raise, and returns the pages
\* of the parsable files of the list, in the order of the list, the files that
\* fail to load being skipped; the chunks are the paragraphs of these pages in
\* the same order.
C7_BatchSkipsFailures ==
    last.op = "process_pdfs" =>
        LET n == Len(last.paths)
            pagesOf == [i \in 1..n |->
                           IF Parsable(disk, last.paths[i])
                           THEN load_pdf(disk, last.paths[i]).docs ELSE <<>>]
        IN  /\ ~last.raised
            /\ last.pages = Concat(pagesOf)
            /\ [i \in 1..Len(last.docs) |-> last.docs[i].page_content]
                   = Concat([i \in 1..Len(last.pages) |-> last.pages[i].page_content])
            /\ \A i \in 1..Len(last.docs) :
                   \E j \in 1..n : /\ Parsable(disk, last.paths[j])
                                   /\ last.docs[i].metadata.source = last.paths[j].name

C7_Witness ==
    /\ last.op = "process_pdfs"
    /\ Len(last.paths) >= 2
    /\ ~Parsable(disk, last.paths[1])
    /\ Parsable(disk, last.paths[2])
    /\ Len(last.pages) >= 2 /\ Len(last.docs) >= 2

\* C10: Config.validate() raises exactly when GOOGLE_API_KEY is absent or
\* empty; when it returns, the vector-db root and the uploads root exist.
C10_ValidateConfig ==
    last.op = "validate" =>
        /\ last.raised <=> (apiKey = None \/ apiKey = Some(""))
        /\ ~last.raised => (vdb.root /\ disk.root)

C10_Witness ==
    /\ last.op = "validate" /\ ~last.raised
    /\ apiKey = Some("key")
    /\ vdb.root /\ disk.root

-----------------------------------------------------------------------------
(* Properties of the front end *)

\* C9: no failure of an external call during an upload or an ask leaves main()
\* as a raw exception: each is caught and shown as a skip or as a structured
\* error.
C9_NoRawException ==
    last.op \in {"process_papers", "ask"} => ~escaped

\* the positions of a run of main() that lie after validate_config()
Running == {"sidebar", "chat", "chat_idle"}

\* C11: in a run of the front end the sidebar and the chat (and so every
\* ingestion, index and query operation) execute only after Config.validate()
\* has succeeded in that run; a run whose validation fails stops and touches
\* nothing else.
C11_ValidateFirst ==
    /\ [](pc \in Running => (Truthy(apiKey) /\ vdb.root /\ disk.root))
    /\ [][last'.op \in {"sidebar", "create_load_topic", "process_papers",
                        "chat_interface", "ask"} => pc \in Running]_vars
    /\ [][pc' = "sidebar" =>
             (pc = "idle" /\ last'.op = "validate" /\ ~last'.raised)]_vars
    /\ [][(last'.op = "validate" /\ last'.raised) => pc' = "stopped"]_vars
    /\ [][pc = "stopped" =>
             (/\ last'.op = "stop" /\ pc' = "idle"
              /\ UNCHANGED <<vdb, disk, called, topic_id, messages,
                             papers_uploaded>>)]_vars

C11_Witness ==
    /\ last.op = "ask" /\ last.llm
    /\ Truthy(apiKey) /\ vdb.root /\ disk.root
    /\ Len(messages) = 2

-----------------------------------------------------------------------------
(* Properties of the storage layout, the citations and the chunk index *)

\* C12: the folder save_uploaded_file writes a topic's file into is named by
\* the normalized topic name, the name of the topic's collection and persist
\* directory.
C12_FolderIsCollectionName ==
    (last.op = "save_uploaded_file" /\ ~last.raised) =>
        last.paths[1].folder = _get_collection_name(last.topic)

\* the number of results a retrieval asking for k gets from topic id t
Fetched(t, k) == Min(k, Len(vdb.coll[_get_collection_name(t)]))

\* C13: the citation records of a retrieval are, in the order of the chunks
\* retrieved, numbered from 1, with the chunk's source filename, its page and,
\* as excerpt, the first 300 characters of the chunk's text: the whole text
\* when it is shorter.  (Stated for the non-empty topic ids.)
C13_FormatSources ==
    (last.op = "get_relevant_chunks" /\ last.topic # <<>>) =>
        /\ Len(last.ret) = Len(last.hits)
        /\ \A i \in 1..Len(last.ret) :
               /\ last.ret[i].number = i
               /\ last.ret[i].filename = last.hits[i].doc.metadata.source
               /\ last.ret[i].page = last.hits[i].doc.metadata.page
               /\ last.ret[i].content =
                      Take(last.hits[i].doc.page_content, ExcerptLen)
               /\ Len(last.ret[i].content) <= ExcerptLen

\* C14: a retrieval in which no external call fails returns as many chunks as
\* the caller's k asks for (as far as the collection has them) for every k the
\* caller gives, and as many as TOP_K_RESULTS when k is None; query() always
\* asks for TOP_K_RESULTS.  (Stated for the non-empty topic ids.)
C14_CallerK ==
    /\ (/\ last.op = "get_relevant_chunks" /\ last.fault = "none"
        /\ last.topic # <<>> /\ topic_exists(vdb, last.topic)) =>
           Len(last.ret) = Fetched(last.topic, IF last.k = None THEN TOP_K_RESULTS
                                               ELSE last.k[1])
    /\ (/\ last.op = "query" /\ last.fault = "none"
        /\ last.topic # <<>> /\ topic_exists(vdb, last.topic)) =>
           Len(last.hits) = Fetched(last.topic, TOP_K_RESULTS)

\* C15: the chunks process_pdfs returns for a batch carry the chunk_id values
\* 0, 1, ..., n-1 in output order, counted through all the files of the batch;
\* every batch that yields a chunk starts again at 0, whatever was processed
\* before.
C15_ChunkIdsSequential ==
    last.op = "process_pdfs" =>
        /\ \A i \in 1..Len(last.docs) : last.docs[i].metadata.chunk_id = i - 1
        /\ \A i, j \in 1..Len(last.docs) :
               i # j => last.docs[i].metadata.chunk_id # last.docs[j].metadata.chunk_id
        /\ last.docs # <<>> => last.docs[1].metadata.chunk_id = 0

C15_Witness ==
    /\ last.op = "process_pdfs"
    /\ Len(last.paths) = 2 /\ last.paths[1] # last.paths[2]
    /\ Parsable(disk, last.paths[1]) /\ Parsable(disk, last.paths[2])
    /\ Len(last.docs) = 4
    /\ last.docs[3].metadata.chunk_id = 2 /\ last.docs[3].metadata.page = 0

-----------------------------------------------------------------------------
(* Properties of the session *)

====
